---- MODULE Spec2Model ----
(***************************************************************************)
(* KML processing tool (src/app.py): process_kml_file, the two length      *)
(* helpers and generate_report, as a state machine.                        *)
(*                                                                         *)
(* Representation.  A text is a tuple of one-character strings, so that    *)
(* str.strip, the f-string feature keys and str.split(" (") are computed   *)
(* character by character.  A coordinate text is kept as the tuple of its  *)
(* whitespace-separated tokens, each token the tuple of its comma-         *)
(* separated fields; a field is one of the lexemes "0", "1", "inf", "x".   *)
(* A Python float is a record [nan, m]: not-a-number, or m whole metres.   *)
(***************************************************************************)
EXTENDS Integers, Sequences, FiniteSets, TLC

VARIABLES
    pc,            \* position in main / process_kml_file
    parse_log,     \* the calls of parser.fromstring made so far: [input, ok]
    total,         \* len(placemarks) found by doc.findall
    walked,        \* the Placemarks whose loop iteration has completed, in order
    counts,        \* defaultdict(int)
    line_lengths,  \* defaultdict(float)
    descriptions,  \* defaultdict(list)
    st_warnings,   \* st.warning calls (the label each one names)
    st_errors,     \* st.error calls
    result,        \* the tuple returned at line 120 (or 79); <<>> before the return
    report         \* the totals generate_report writes; <<>> before it runs

vars == <<pc, parse_log, total, walked, counts, line_lengths, descriptions,
          st_warnings, st_errors, result, report>>

\* Largest number of Placemark elements in a document.
MaxPlacemarks == 2

----------------------------------------------------------------------------
(* Texts *)

EmptyMap == [k \in {} |-> 0]

Put(d, k, v) == [x \in DOMAIN d \cup {k} |-> IF x = k THEN v ELSE d[x]]

IsSpace(c) == c = " "

RECURSIVE LStrip(_)
LStrip(s) == IF s # <<>> /\ IsSpace(Head(s)) THEN LStrip(Tail(s)) ELSE s

RECURSIVE RStrip(_)
RStrip(s) ==
    IF s # <<>> /\ IsSpace(s[Len(s)]) THEN RStrip(SubSeq(s, 1, Len(s) - 1)) ELSE s

\* str.strip()
Strip(s) == RStrip(LStrip(s))

Unnamed == <<"U", "n", "n", "a", "m", "e", "d">>
NoDescription == <<"N", "o", " ", "d", "e", "s", "c", "r", "i", "p", "t", "i", "o", "n">>

KindSuffix(kind) ==
    CASE kind = "Polygon"    -> <<" ", "(", "P", "o", "l", "y", "g", "o", "n", ")">>
      [] kind = "Point"      -> <<" ", "(", "P", "o", "i", "n", "t", ")">>
      [] kind = "LineString" -> <<" ", "(", "L", "i", "n", "e", "S", "t", "r", "i", "n", "g", ")">>

\* f"{label} ({kind})"
FeatureKey(label, kind) == label \o KindSuffix(kind)

\* s.split(" (")[0]: the text before the first occurrence of " (", or all of s
SplitFirst(s) ==
    LET hits == {i \in 1..(Len(s) - 1) : s[i] = " " /\ s[i + 1] = "("}
    IN  IF hits = {} THEN s
        ELSE SubSeq(s, 1, (CHOOSE i \in hits : \A j \in hits : i <= j) - 1)

----------------------------------------------------------------------------
(* Floats and the two length helpers *)

F(m) == [nan |-> FALSE, m |-> m]
NaN == [nan |-> TRUE, m |-> 0]

\* float +
FAdd(x, y) == IF x.nan \/ y.nan THEN NaN ELSE F(x.m + y.m)

\* float(field) succeeds
IsNumeric(f) == f \in {"0", "1", "inf"}

IsInf(f) == f = "inf"

\* calculate_distance on coordinates (lon, lat) of the grid {0, 1, inf}^2: the
\* Haversine value in whole metres with radius_earth = 6371000.  math.sin and
\* math.cos raise ValueError (math domain error) on an infinite argument; a
\* difference inf - inf is nan, which they pass through.
calculate_distance(coord1, coord2) ==
    LET lon1 == coord1[1]  lat1 == coord1[2]
        lon2 == coord2[1]  lat2 == coord2[2]
    IN  IF IsInf(lat1) \/ IsInf(lat2) THEN [raise |-> TRUE, val |-> NaN]
        ELSE IF IsInf(lon1) /\ IsInf(lon2) THEN [raise |-> FALSE, val |-> NaN]
        ELSE IF IsInf(lon1) \/ IsInf(lon2) THEN [raise |-> TRUE, val |-> NaN]
        ELSE [raise |-> FALSE, val |->
                CASE lon1 = lon2 /\ lat1 = lat2 -> F(0)
                  [] lon1 = lon2 /\ lat1 # lat2 -> F(111195)
                  [] lon1 # lon2 /\ lat1 = lat2 /\ lat1 = "0" -> F(111195)
                  [] lon1 # lon2 /\ lat1 = lat2 /\ lat1 = "1" -> F(111178)
                  [] lon1 # lon2 /\ lat1 # lat2 -> F(157249)]

RECURSIVE LengthFrom(_, _, _)
LengthFrom(coordinates, i, total_length) ==
    IF i > Len(coordinates) - 1 THEN [raise |-> FALSE, val |-> total_length]
    ELSE LET d == calculate_distance(coordinates[i], coordinates[i + 1])
         IN  IF d.raise THEN [raise |-> TRUE, val |-> NaN]
             ELSE LengthFrom(coordinates, i + 1, FAdd(total_length, d.val))

calculate_linestring_length(coordinates) == LengthFrom(coordinates, 1, F(0))

----------------------------------------------------------------------------
(* One iteration of the Placemark loop, lines 81-113 *)

\* line 83
Label(pm) ==
    IF pm.name.found /\ pm.name.text # <<>> THEN Strip(pm.name.text) ELSE Unnamed

\* line 87
Description(pm) ==
    IF pm.desc.found /\ pm.desc.text # <<>> THEN Strip(pm.desc.text) ELSE NoDescription

\* pm.find('.//{ns}<kind>') is not None
Has(pm, kind) == \E i \in 1..Len(pm.geoms) : pm.geoms[i] = kind

\* AppendDescription with the list replaced instead of appended to.
AppendDescription_Overwrite(ds, label, description) == Put(ds, label, <<description>>)

\* line 88
AppendDescription(ds, label, description) ==
    Put(ds, label, Append(IF label \in DOMAIN ds THEN ds[label] ELSE <<>>, description))

Incr(cs, k) == Put(cs, k, (IF k \in DOMAIN cs THEN cs[k] ELSE 0) + 1)

\* CountGeometry with the Point looked for first.
CountGeometry_PointFirst(cs, pm, label) ==
    IF Has(pm, "Point") THEN Incr(cs, FeatureKey(label, "Point"))
    ELSE IF Has(pm, "Polygon") THEN Incr(cs, FeatureKey(label, "Polygon"))
    ELSE cs

\* lines 91-94
CountGeometry(cs, pm, label) ==
    IF Has(pm, "Polygon") THEN Incr(cs, FeatureKey(label, "Polygon"))
    ELSE IF Has(pm, "Point") THEN Incr(cs, FeatureKey(label, "Point"))
    ELSE cs

\* ParseToken with a token of fewer than two fields raising ValueError.
ParseToken_ShortRaises(parts) ==
    IF Len(parts) >= 2 /\ IsNumeric(parts[1]) /\ IsNumeric(parts[2])
    THEN [raise |-> FALSE, coords |-> << <<parts[1], parts[2]>> >>]
    ELSE [raise |-> TRUE, coords |-> <<>>]

\* lines 104-107, one token: skipped, parsed to a coordinate, or ValueError
ParseToken(parts) ==
    IF Len(parts) >= 2
    THEN IF IsNumeric(parts[1]) /\ IsNumeric(parts[2])
         THEN [raise |-> FALSE, coords |-> << <<parts[1], parts[2]>> >>]
         ELSE [raise |-> TRUE, coords |-> <<>>]
    ELSE [raise |-> FALSE, coords |-> <<>>]

\* lines 102-107
RECURSIVE ParseCoordinates(_, _)
ParseCoordinates(tokens, coord_list) ==
    IF tokens = <<>> THEN [raise |-> FALSE, coord_list |-> coord_list]
    ELSE LET t == ParseToken(Head(tokens))
         IN  IF t.raise THEN [raise |-> TRUE, coord_list |-> coord_list]
             ELSE ParseCoordinates(Tail(tokens), coord_list \o t.coords)

AddLength(lens, key, length) ==
    Put(lens, key, FAdd(IF key \in DOMAIN lens THEN lens[key] ELSE F(0), length))

\* ProcessLineString with the handler of line 112 adding the length of the
\* coordinates parsed before the bad token.
ProcessLineString_PartialSum(lens, pm, label) ==
    IF pm.ls.found /\ pm.ls.has_text
    THEN LET parsed == ParseCoordinates(pm.ls.tokens, <<>>)
             length == calculate_linestring_length(parsed.coord_list)
             key == FeatureKey(label, "LineString")
         IN  IF length.raise THEN [line_lengths |-> lens, warn |-> TRUE]
             ELSE IF parsed.coord_list # <<>>
             THEN [line_lengths |-> AddLength(lens, key, length.val), warn |-> parsed.raise]
             ELSE [line_lengths |-> lens, warn |-> parsed.raise]
    ELSE [line_lengths |-> lens, warn |-> FALSE]

\* ProcessLineString with the handler of line 112 passing in silence.
ProcessLineString_NoWarning(lens, pm, label) ==
    IF pm.ls.found /\ pm.ls.has_text
    THEN LET parsed == ParseCoordinates(pm.ls.tokens, <<>>)
             length == calculate_linestring_length(parsed.coord_list)
             key == FeatureKey(label, "LineString")
         IN  IF parsed.raise \/ length.raise \/ parsed.coord_list = <<>>
             THEN [line_lengths |-> lens, warn |-> FALSE]
             ELSE [line_lengths |-> AddLength(lens, key, length.val), warn |-> FALSE]
    ELSE [line_lengths |-> lens, warn |-> FALSE]

\* lines 97-113: the new line_lengths and whether st.warning is called
ProcessLineString(lens, pm, label) ==
    IF pm.ls.found /\ pm.ls.has_text
    THEN LET parsed == ParseCoordinates(pm.ls.tokens, <<>>)
         IN  IF parsed.raise THEN [line_lengths |-> lens, warn |-> TRUE]
             ELSE IF parsed.coord_list # <<>>
             THEN LET length == calculate_linestring_length(parsed.coord_list)
                      key == FeatureKey(label, "LineString")
                  IN  IF length.raise THEN [line_lengths |-> lens, warn |-> TRUE]
                      ELSE [line_lengths |-> AddLength(lens, key, length.val),
                            warn |-> FALSE]
             ELSE [line_lengths |-> lens, warn |-> FALSE]
    ELSE [line_lengths |-> lens, warn |-> FALSE]

\* The loop body on the accumulators acc = [counts, line_lengths, descriptions,
\* st_warnings].
ProcessPlacemark(acc, pm) ==
    LET label == Label(pm)
        ls == ProcessLineString(acc.line_lengths, pm, label)
    IN  [counts |-> CountGeometry(acc.counts, pm, label),
         line_lengths |-> ls.line_lengths,
         descriptions |-> AppendDescription(acc.descriptions, label, Description(pm)),
         st_warnings |-> IF ls.warn THEN Append(acc.st_warnings, label)
                         ELSE acc.st_warnings]

\* The loop body cut short by an exception that line 112 does not catch, raised
\* before line 88 ("label"), between lines 88 and 91 ("geometry") or after line 94
\* and before line 111 ("linestring").
ProcessUpTo(acc, pm, stage) ==
    LET label == Label(pm) IN
    [counts |-> IF stage = "linestring" THEN CountGeometry(acc.counts, pm, label)
                ELSE acc.counts,
     line_lengths |-> acc.line_lengths,
     descriptions |-> IF stage = "label" THEN acc.descriptions
                      ELSE AppendDescription(acc.descriptions, label, Description(pm)),
     st_warnings |-> acc.st_warnings]

EmptyAcc ==
    [counts |-> EmptyMap, line_lengths |-> EmptyMap, descriptions |-> EmptyMap,
     st_warnings |-> <<>>]

Acc ==
    [counts |-> counts, line_lengths |-> line_lengths, descriptions |-> descriptions,
     st_warnings |-> st_warnings]

----------------------------------------------------------------------------
(* generate_report, lines 216-234: the three totals of its SUMMARY section *)

RECURSIVE SumInts(_, _)
SumInts(d, ks) ==
    IF ks = {} THEN 0
    ELSE LET k == CHOOSE x \in ks : TRUE IN d[k] + SumInts(d, ks \ {k})

RECURSIVE SumFloats(_, _)
SumFloats(d, ks) ==
    IF ks = {} THEN F(0)
    ELSE LET k == CHOOSE x \in ks : TRUE IN FAdd(d[k], SumFloats(d, ks \ {k}))

\* line 232
UniqueLabels(cs, lens) ==
    IF DOMAIN cs # {} \/ DOMAIN lens # {}
    THEN Cardinality({SplitFirst(k) : k \in DOMAIN cs \cup DOMAIN lens})
    ELSE 0

generate_report(cs, lens) ==
    [total_features |-> SumInts(cs, DOMAIN cs),
     total_length |-> SumFloats(lens, DOMAIN lens),
     unique_labels |-> UniqueLabels(cs, lens)]

----------------------------------------------------------------------------
(* Documents *)

Txt(text) == [found |-> TRUE, text |-> text]
NoElem == [found |-> FALSE, text |-> <<>>]

NoLS == [found |-> FALSE, has_text |-> FALSE, tokens |-> <<>>]
LSText(tokens) == [found |-> TRUE, has_text |-> TRUE, tokens |-> tokens]
\* a LineString without a coordinates child, or with an empty one
LSNoText == [found |-> TRUE, has_text |-> FALSE, tokens |-> <<>>]

T00 == <<"0", "0">>
T01 == <<"0", "1">>
T11 == <<"1", "1">>
TInf == <<"inf", "0">>

\* "0,0 0,1"
LS01 == LSText(<<T00, T01>>)

NameA == Txt(<<"a">>)
NameB == Txt(<<"b">>)

Pm(name, desc, geoms, ls) == [name |-> name, desc |-> desc, geoms |-> geoms, ls |-> ls]

\* <name> variants: absent, empty, blank, padded, containing " ("
NameCases ==
    {NoElem, Txt(<<>>), Txt(<<" ">>), NameA, NameB, Txt(<<" ", "a", " ">>),
     Txt(<<"a", " ", "(">>)}

\* <description> variants
DescCases == {Txt(<<>>), Txt(<<" ">>), Txt(<<"d">>), Txt(<<" ", "d", " ">>)}

GeomCases == {<<"Polygon">>, <<"Polygon", "Point">>, <<"Point", "Polygon">>}

\* <coordinates> variants: blank, one point, one and two segments, a non-numeric
\* field after, before and between valid tokens, one-field tokens, an ignored
\* third field, infinite longitudes
CoordCases ==
    {<<>>, <<T00>>, <<T00, T01, T11>>,
     <<T00, T01, <<"x", "1">>>>, <<<<"x", "0">>, T00, T01>>, <<T00, <<"0", "x">>, T01>>,
     <<T00, <<"1">>, T11>>, <<<<"1">>>>, <<T00, <<"x">>, T01>>,
     <<<<"0", "0", "x">>, <<"0", "1", "1">>>>,
     <<TInf, T00>>, <<TInf>>, <<TInf, TInf>>}

Placemarks ==
    {Pm(n, NoElem, g, l) : n \in NameCases, g \in {<<"Point">>}, l \in {NoLS}}
    \cup {Pm(n, NoElem, <<>>, LS01) : n \in NameCases}
    \cup {Pm(NameA, d, <<>>, NoLS) : d \in DescCases}
    \cup {Pm(n, Txt(<<"d">>), g, l) : n \in {NameA, NameB}, g \in GeomCases, l \in {NoLS, LS01}}
    \cup {Pm(NameA, NoElem, <<"Point">>, LSText(c)) : c \in CoordCases}
    \cup {Pm(NameA, NoElem, <<"Point">>, LSNoText)}

\* The iterations an exception outside the coordinate parsing is raised in.
RaisingPlacemarks == {Pm(NameB, Txt(<<"d">>), <<"Point">>, LS01)}

Stages == {"label", "geometry", "linestring"}

----------------------------------------------------------------------------
(* process_kml_file and its caller *)

Init ==
    /\ pc = "parse"
    /\ parse_log = <<>>
    /\ total = 0
    /\ walked = <<>>
    /\ counts = EmptyMap
    /\ line_lengths = EmptyMap
    /\ descriptions = EmptyMap
    /\ st_warnings = <<>>
    /\ st_errors = <<>>
    /\ result = <<>>
    /\ report = <<>>

\* line 69: the first parse, of the raw bytes
ParseRaw ==
    /\ pc = "parse"
    /\ \E ok \in BOOLEAN :
         /\ parse_log' = Append(parse_log, [input |-> "raw", ok |-> ok])
         /\ pc' = IF ok THEN "findall" ELSE "retry"
    /\ UNCHANGED <<total, walked, counts, line_lengths, descriptions, st_warnings,
                   st_errors, result, report>>

\* RetryStripped trying once more when the second parse fails.
RetryStripped_Again ==
    /\ pc = "retry"
    /\ \E outcome \in {"decode_error", "parse_error", "ok"} :
         /\ parse_log' = IF outcome = "decode_error" THEN parse_log
                         ELSE Append(parse_log, [input |-> "stripped", ok |-> outcome = "ok"])
         /\ st_errors' = IF outcome = "decode_error" THEN Append(st_errors, outcome)
                         ELSE st_errors
         /\ pc' = CASE outcome = "ok" -> "findall"
                    [] outcome = "parse_error" -> "retry"
                    [] outcome = "decode_error" -> "return"
    /\ UNCHANGED <<total, walked, counts, line_lengths, descriptions, st_warnings,
                   result, report>>

\* lines 70-74 and the handlers of lines 115-118: decode, strip the declaration,
\* parse again
RetryStripped ==
    /\ pc = "retry"
    /\ \E outcome \in {"decode_error", "parse_error", "ok"} :
         /\ parse_log' = IF outcome = "decode_error" THEN parse_log
                         ELSE Append(parse_log, [input |-> "stripped", ok |-> outcome = "ok"])
         /\ st_errors' = IF outcome = "ok" THEN st_errors ELSE Append(st_errors, outcome)
         /\ pc' = IF outcome = "ok" THEN "findall" ELSE "return"
    /\ UNCHANGED <<total, walked, counts, line_lengths, descriptions, st_warnings,
                   result, report>>

\* lines 77-79
FindAll ==
    /\ pc = "findall"
    /\ \E n \in 0..MaxPlacemarks :
         /\ total' = n
         /\ IF n = 0
            THEN /\ result' = <<counts, line_lengths, descriptions>>
                 /\ pc' = "returned"
            ELSE /\ result' = result
                 /\ pc' = "walk"
    /\ UNCHANGED <<parse_log, walked, counts, line_lengths, descriptions, st_warnings,
                   st_errors, report>>

\* lines 81-113: one iteration
WalkPlacemark ==
    /\ pc = "walk"
    /\ Len(walked) < total
    /\ \E pm \in Placemarks :
         LET acc == ProcessPlacemark(Acc, pm) IN
         /\ counts' = acc.counts
         /\ line_lengths' = acc.line_lengths
         /\ descriptions' = acc.descriptions
         /\ st_warnings' = acc.st_warnings
         /\ walked' = Append(walked, pm)
    /\ UNCHANGED <<pc, parse_log, total, st_errors, result, report>>

\* lines 81-113 left by an exception other than the ValueError of line 112, and
\* the handler of lines 117-118
WalkRaise ==
    /\ pc = "walk"
    /\ Len(walked) < total
    /\ \E pm \in RaisingPlacemarks, stage \in Stages :
         LET acc == ProcessUpTo(Acc, pm, stage) IN
         /\ counts' = acc.counts
         /\ line_lengths' = acc.line_lengths
         /\ descriptions' = acc.descriptions
         /\ st_warnings' = acc.st_warnings
    /\ st_errors' = Append(st_errors, "walk_error")
    /\ pc' = "return"
    /\ UNCHANGED <<parse_log, total, walked, result, report>>

\* the loop ends
WalkDone ==
    /\ pc = "walk"
    /\ Len(walked) = total
    /\ pc' = "return"
    /\ UNCHANGED <<parse_log, total, walked, counts, line_lengths, descriptions,
                   st_warnings, st_errors, result, report>>

\* line 120
Return ==
    /\ pc = "return"
    /\ result' = <<counts, line_lengths, descriptions>>
    /\ pc' = "returned"
    /\ UNCHANGED <<parse_log, total, walked, counts, line_lengths, descriptions,
                   st_warnings, st_errors, report>>

\* lines 189 and 211: display_results offers the report when there is a result
DownloadReport ==
    /\ pc = "returned"
    /\ DOMAIN result[1] # {} \/ DOMAIN result[2] # {}
    /\ report' = generate_report(result[1], result[2])
    /\ pc' = "reported"
    /\ UNCHANGED <<parse_log, total, walked, counts, line_lengths, descriptions,
                   st_warnings, st_errors, result>>

Next ==
    \/ ParseRaw
    \/ RetryStripped
    \/ FindAll
    \/ WalkPlacemark
    \/ WalkRaise
    \/ WalkDone
    \/ Return
    \/ DownloadReport

Spec == Init /\ [][Next]_vars

----------------------------------------------------------------------------
(* What the properties below are stated with *)

\* for pm in placemarks (line 81), run to its end from the accumulators acc
RECURSIVE WalkAll(_, _)
WalkAll(pms, acc) ==
    IF pms = <<>> THEN acc ELSE WalkAll(Tail(pms), ProcessPlacemark(acc, Head(pms)))

Mappings(acc) == <<acc.counts, acc.line_lengths, acc.descriptions>>

\* No exception has reached the handlers of lines 115-118.
NoError == st_errors = <<>>

Indices == 1..Len(walked)

WalkedLabels == {Label(walked[j]) : j \in Indices}

Contains(pm, kind) == kind \in {pm.geoms[i] : i \in DOMAIN pm.geoms}

CountOf(k) == IF k \in DOMAIN counts THEN counts[k] ELSE 0

\* The tokens of a LineString's coordinate text (none without a text).
Tokens(pm) == IF pm.ls.found /\ pm.ls.has_text THEN pm.ls.tokens ELSE <<>>

IsPair(t) == Len(t) >= 2
IsShort(t) == Len(t) < 2
IsBadPair(t) == Len(t) >= 2 /\ ~(IsNumeric(t[1]) /\ IsNumeric(t[2]))

\* a token whose first two fields are not both numeric
HasBadToken(pm) == \E i \in DOMAIN Tokens(pm) : IsBadPair(Tokens(pm)[i])

\* a token with fewer than two fields
HasShortToken(pm) == \E i \in DOMAIN Tokens(pm) : IsShort(Tokens(pm)[i])

FirstTwo(t) == <<t[1], t[2]>>

RECURSIVE MapFirstTwo(_)
MapFirstTwo(ts) ==
    IF ts = <<>> THEN <<>> ELSE <<FirstTwo(Head(ts))>> \o MapFirstTwo(Tail(ts))

\* The coordinate list of a text without a bad token: its tokens of two or more
\* fields, in order.
Points(pm) == MapFirstTwo(SelectSeq(Tokens(pm), IsPair))

\* Two consecutive points between which the Haversine formula is undefined.
Undefined(c1, c2) ==
    \/ IsInf(c1[2]) \/ IsInf(c2[2])
    \/ IsInf(c1[1]) # IsInf(c2[1])

\* The LineString's processing ends in the handler of line 112.
Abandoned(pm) ==
    \/ HasBadToken(pm)
    \/ \E i \in 1..(Len(Points(pm)) - 1) : Undefined(Points(pm)[i], Points(pm)[i + 1])

RECURSIVE MapSeq(_, _)
MapSeq(Op(_), s) == IF s = <<>> THEN <<>> ELSE <<Op(Head(s))>> \o MapSeq(Op, Tail(s))

\* The trailing " (Kind)" of a feature key removed.
BareLabel(k) ==
    LET kind == CHOOSE x \in {"Polygon", "Point", "LineString"} :
                    /\ Len(k) >= Len(KindSuffix(x))
                    /\ SubSeq(k, Len(k) - Len(KindSuffix(x)) + 1, Len(k)) = KindSuffix(x)
    IN  SubSeq(k, 1, Len(k) - Len(KindSuffix(kind)))

AllEmpty(r) == DOMAIN r[1] = {} /\ DOMAIN r[2] = {} /\ DOMAIN r[3] = {}

----------------------------------------------------------------------------
(* C1 *)

----------------------------------------------------------------------------
(* C2 *)

\* C2: a Placemark containing a Polygon and a Point, in either order, counts as
\* a Polygon only: each label's Polygon count is the number of its Placemarks that
\* contain a Polygon, its Point count the number that contain a Point and no
\* Polygon, there is no other key, and the counts add up to the number of
\* Placemarks containing a Polygon or a Point.
C2_PolygonPrecedence ==
    NoError =>
        /\ \A l \in WalkedLabels :
             /\ CountOf(FeatureKey(l, "Polygon")) =
                  Cardinality({j \in Indices : Label(walked[j]) = l
                                                /\ Contains(walked[j], "Polygon")})
             /\ CountOf(FeatureKey(l, "Point")) =
                  Cardinality({j \in Indices : /\ Label(walked[j]) = l
                                               /\ Contains(walked[j], "Point")
                                               /\ ~Contains(walked[j], "Polygon")})
        /\ DOMAIN counts \subseteq
             {FeatureKey(l, k) : l \in WalkedLabels, k \in {"Polygon", "Point"}}
        /\ \A k \in DOMAIN counts : counts[k] >= 1
        /\ SumInts(counts, DOMAIN counts) =
             Cardinality({j \in Indices : \/ Contains(walked[j], "Polygon")
                                          \/ Contains(walked[j], "Point")})

\* A whole document has been walked in which a Placemark holds a Point before a
\* Polygon.
C2_Witness ==
    /\ pc = "returned"
    /\ NoError
    /\ \E j \in Indices :
         /\ walked[j].geoms = <<"Point", "Polygon">>
         /\ counts[FeatureKey(Label(walked[j]), "Polygon")] >= 1

----------------------------------------------------------------------------
(* C3 *)

\* C3: every resolved label is the trimmed name, "Unnamed" when the name is
\* absent or empty, every description likewise with "No description"; so no label,
\* no description and no label segment of a feature key is the empty string.
C3_NoEmptyLabel ==
    /\ \A l \in DOMAIN descriptions :
         /\ l # <<>>
         /\ \A i \in DOMAIN descriptions[l] : descriptions[l][i] # <<>>
    /\ \A k \in DOMAIN counts \cup DOMAIN line_lengths : BareLabel(k) # <<>>

----------------------------------------------------------------------------
(* C4 *)

DropBadLineString(pm) == IF HasBadToken(pm) THEN [pm EXCEPT !.ls = NoLS] ELSE pm

\* C4: a Placemark whose LineString has a token with a non-numeric first or
\* second field, wherever the token stands, is processed as the same Placemark
\* without its LineString: nothing of it enters line_lengths, its description and
\* its Polygon/Point count are recorded, and the other Placemarks are processed
\* as they would be without it.
C4_BadTokenDiscardsLineString ==
    NoError =>
        <<counts, line_lengths, descriptions>> =
            Mappings(WalkAll(MapSeq(DropBadLineString, walked), EmptyAcc))

\* A Placemark with a bad token after two valid ones has been walked, and after
\* it a Placemark whose LineString has a length.
C4_Witness ==
    /\ pc = "returned"
    /\ NoError
    /\ Len(walked) = 2
    /\ Tokens(walked[1]) = <<T00, T01, <<"x", "1">>>>
    /\ walked[2].ls = LS01
    /\ Label(walked[2]) = Label(walked[1])
    /\ line_lengths[FeatureKey(Label(walked[1]), "LineString")] = F(111195)

----------------------------------------------------------------------------
(* C5 *)

RECURSIVE AbandonedLabels(_)
AbandonedLabels(pms) ==
    IF pms = <<>> THEN <<>>
    ELSE (IF Abandoned(Head(pms)) THEN <<Label(Head(pms))>> ELSE <<>>)
         \o AbandonedLabels(Tail(pms))

\* C5 as claimed: the returned result carries, beside the three mappings, a
\* warning list with one entry for each Placemark whose LineString coordinate
\* parsing was abandoned, empty when there is none.
C5_WarningListReturned ==
    pc = "returned" =>
        /\ Len(result) = 4
        /\ NoError => result[4] = AbandonedLabels(walked)

\* C5: the returned result is the three mappings alone; the warnings are calls
\* of st.warning, one, in document order, for each Placemark whose LineString
\* processing ends in ValueError (a token of two or more fields whose first two
\* are not both numeric, or a length undefined at an infinite coordinate), and
\* none for any other Placemark.
C5_WarningsEmitted ==
    /\ pc = "returned" => Len(result) = 3
    /\ NoError => st_warnings = AbandonedLabels(walked)

\* Two Placemarks have been walked and each was warned about.
C5_Witness ==
    /\ pc = "returned"
    /\ NoError
    /\ Len(walked) = 2
    /\ HasBadToken(walked[1])
    /\ HasBadToken(walked[2])
    /\ Len(st_warnings) = 2

----------------------------------------------------------------------------
(* C6 *)

\* The coordinate list parsed to at least one point.
ParsedToPoints(pm) == ~HasBadToken(pm) /\ Points(pm) # <<>>

\* The sum of the distances over the consecutive pairs; not a number where one
\* of them is undefined.
PathLength(points) ==
    LET l == calculate_linestring_length(points) IN IF l.raise THEN NaN ELSE l.val

RECURSIVE SumPathLengths(_)
SumPathLengths(js) ==
    IF js = {} THEN F(0)
    ELSE LET j == CHOOSE x \in js : TRUE
         IN  FAdd(PathLength(Points(walked[j])), SumPathLengths(js \ {j}))

\* C6: line_lengths has the key "{label} (LineString)" exactly when a walked
\* Placemark with that label has a coordinate list that parsed to at least one
\* point, and its value is the sum of the path lengths of all such Placemarks.
C6_AdditiveLengths ==
    NoError =>
        \A l \in WalkedLabels :
            LET js == {j \in Indices : Label(walked[j]) = l /\ ParsedToPoints(walked[j])}
                key == FeatureKey(l, "LineString")
            IN  /\ key \in DOMAIN line_lengths <=> js # {}
                /\ js # {} => line_lengths[key] = SumPathLengths(js)

----------------------------------------------------------------------------
(* C7 *)

RECURSIVE DescriptionsOf(_, _)
DescriptionsOf(pms, l) ==
    IF pms = <<>> THEN <<>>
    ELSE (IF Label(Head(pms)) = l THEN <<Description(Head(pms))>> ELSE <<>>)
         \o DescriptionsOf(Tail(pms), l)

RECURSIVE SumLens(_, _)
SumLens(ds, ks) ==
    IF ks = {} THEN 0
    ELSE LET k == CHOOSE x \in ks : TRUE IN Len(ds[k]) + SumLens(ds, ks \ {k})

HasGeometry(pm) == pm.geoms # <<>> \/ pm.ls.found

\* C7: after k Placemarks descriptions holds k entries, keyed by the bare
\* labels, each label's list being the descriptions of its Placemarks in document
\* order; the Placemarks without a Polygon, Point or LineString leave counts and
\* line_lengths as they would be without them.
C7_DescriptionsPerPlacemark ==
    NoError =>
        /\ SumLens(descriptions, DOMAIN descriptions) = Len(walked)
        /\ DOMAIN descriptions = WalkedLabels
        /\ \A l \in WalkedLabels : descriptions[l] = DescriptionsOf(walked, l)
        /\ LET acc == WalkAll(SelectSeq(walked, HasGeometry), EmptyAcc)
           IN  counts = acc.counts /\ line_lengths = acc.line_lengths

\* Two Placemarks of one label with different descriptions, the second without
\* any geometry, the first with a Polygon.
C7_Witness ==
    /\ pc = "returned"
    /\ NoError
    /\ Len(walked) = 2
    /\ Label(walked[1]) = Label(walked[2])
    /\ Description(walked[1]) # Description(walked[2])
    /\ Contains(walked[1], "Polygon")
    /\ ~HasGeometry(walked[2])
    /\ Len(descriptions[Label(walked[1])]) = 2

----------------------------------------------------------------------------
(* C8 *)

NoParseSucceeded == \A i \in DOMAIN parse_log : ~parse_log[i].ok

\* C8: at most two parse attempts, the first on the raw bytes, the second on
\* the stripped text and only after the first failed; when no attempt succeeded
\* the run ends with an error reported, no Placemark walked and three empty
\* mappings returned.
C8_AtMostTwoParses ==
    /\ Len(parse_log) <= 2
    /\ Len(parse_log) >= 1 => parse_log[1].input = "raw"
    /\ Len(parse_log) = 2 => ~parse_log[1].ok /\ parse_log[2].input = "stripped"
    /\ pc \notin {"parse", "retry"} /\ NoParseSucceeded =>
          /\ pc \in {"return", "returned"}
          /\ Len(st_errors) = 1
          /\ walked = <<>>
          /\ total = 0
          /\ DOMAIN counts = {} /\ DOMAIN line_lengths = {} /\ DOMAIN descriptions = {}
          /\ pc = "returned" => AllEmpty(result)

\* Both attempts failed and the empty mappings have been returned.
C8_Witness ==
    /\ pc = "returned"
    /\ Len(parse_log) = 2
    /\ ~parse_log[2].ok
    /\ st_errors = <<"parse_error">>
    /\ AllEmpty(result)

----------------------------------------------------------------------------
(* C9 *)

\* C9: the report's "Unique Labels" is the number of distinct bare labels among
\* the keys of counts and line_lengths.
C9_UniqueLabels ==
    pc = "reported" =>
        report.unique_labels =
            Cardinality({BareLabel(k) : k \in DOMAIN result[1] \cup DOMAIN result[2]})

----------------------------------------------------------------------------
(* C10 *)

DropShortLineString(pm) == IF HasShortToken(pm) THEN [pm EXCEPT !.ls = NoLS] ELSE pm

RECURSIVE ShortLabels(_)
ShortLabels(pms) ==
    IF pms = <<>> THEN <<>>
    ELSE (IF HasShortToken(Head(pms)) /\ ~Abandoned(Head(pms))
          THEN <<Label(Head(pms))>> ELSE <<>>)
         \o ShortLabels(Tail(pms))

\* C10 as claimed: a LineString with a token of fewer than two fields
\* contributes nothing to line_lengths and is warned about, as one with a
\* non-numeric field is.
C10_ShortTokenFails ==
    NoError =>
        /\ line_lengths =
             WalkAll(MapSeq(DropShortLineString, walked), EmptyAcc).line_lengths
        /\ \A i \in DOMAIN ShortLabels(walked) :
             \E j \in DOMAIN st_warnings : st_warnings[j] = ShortLabels(walked)[i]

DropShortTokens(pm) ==
    IF HasShortToken(pm)
    THEN [pm EXCEPT !.ls.tokens = SelectSeq(pm.ls.tokens, IsPair)]
    ELSE pm

\* C10: a token of fewer than two fields is skipped without a warning: the
\* Placemark is processed, mappings and warnings alike, as it would be with the
\* token taken out of the coordinate text, the remaining tokens being summed.
C10_ShortTokenSkipped ==
    NoError =>
        Acc = WalkAll(MapSeq(DropShortTokens, walked), EmptyAcc)

\* A LineString "0,0 1 1,1" has been walked: it is in line_lengths with the
\* length from 0,0 to 1,1 and nothing was warned about.
C10_Witness ==
    /\ pc = "returned"
    /\ NoError
    /\ Len(walked) = 1
    /\ Tokens(walked[1]) = <<T00, <<"1">>, T11>>
    /\ line_lengths[FeatureKey(Label(walked[1]), "LineString")] = F(157249)
    /\ st_warnings = <<>>
====
